---- MODULE Spec2Model ----
(***************************************************************************)
(* Model of the job handlers of src/jobs.py: the job state table, the      *)
(* transition predicate validTransition, Jobs.next (the claim of a pending *)
(* job) and Job.put (the validated mutation of a job), run by concurrent   *)
(* requests against one shared jobs collection.                            *)
(*                                                                         *)
(* The handlers are modelled statement by statement, exceptions included:  *)
(* a Python expression that raises ends the request with that exception    *)
(* and the statements after it do not run.                                 *)
(*                                                                         *)
(* src/jobs.py line 92 lacks a '+' before its last string literal, so the  *)
(* file as given does not compile and no handler of it can answer a        *)
(* request.  The model reads line 92 as the concatenation it shows; with   *)
(* that reading every next() and every put() still ends in an exception    *)
(* (lines 70 and 89), so both readings give the callers the same outcome.  *)
(***************************************************************************)
EXTENDS Integers, FiniteSets, Sequences, TLC

\* ------------------------------------------------------------------ bounds
MaxJobs == 1
MaxCalls == 2

JobIds == 1..MaxJobs
Calls == 1..MaxCalls

\* ------------------------------------------------- module-level constants
JOB_STATES == {"pending", "running", "failed", "complete"}

JOB_STATES_ALLOWED_MUTATE == {"pending", "running"}

JOB_TRANSITIONS == {"pending --> running", "running --> failed", "running --> complete"}

\* The names bound at module level (imports, assignments, def, class).
ModuleNames ==
    {"logging", "datetime", "log", "base", "JOB_STATES", "JOB_STATES_ALLOWED_MUTATE",
     "JOB_TRANSITIONS", "validTransition", "Jobs", "Job"}

\* Python name resolution: a name is found among the function's locals or the
\* module's names, else evaluating it raises NameError.
NameDefined(name, locals) == name \in (locals \cup ModuleNames)

\* Python '+' on operand types: str + str is a str, int + int an int, and a
\* str with an int raises TypeError.
PyAddType(l, r) == IF l = r THEN l ELSE "TypeError"

\* ------------------------------------------------------ transition predicate
\* The value of a call: exc is "none" or the exception it raised.
Returned(v) == [exc |-> "none", val |-> v]
Raised(e) == [exc |-> e, val |-> FALSE]

\* def validTransition(fromState, toState):
\*     return (fromState + " --> " + tosState) in JOB_TRANSITIONS
validTransition(fromState, toState) ==
    IF ~NameDefined("tosState", {"fromState", "toState"})
    THEN Raised("NameError")
    ELSE Returned((fromState \o " --> " \o toState) \in JOB_TRANSITIONS)

\* --------------------------------------------------------------- documents
Absent == "absent"
NoTime == 0 - 1

\* A document of the jobs collection.  state, modified, created and payload
\* are the fields a submitted job carries; status is the field next() filters
\* on and sets; timestamp is the field put() stamps.
NoDoc ==
    [state |-> Absent, status |-> Absent, modified |-> NoTime, timestamp |-> NoTime,
     created |-> NoTime, payload |-> Absent, result |-> Absent]

\* The document of job id as its submitter inserted it at time id - 1 (one
\* submission per clock reading), and as later moved to state s.
SubmittedDoc(id, s) ==
    [state |-> s, status |-> Absent, modified |-> id - 1, timestamp |-> NoTime,
     created |-> id - 1, payload |-> "p", result |-> Absent]

\* A time before every submission.
Earlier == 0 - 2

\* The request bodies of put() (self.request.json): partial field sets, one
\* of them supplying modified and created itself.
Mutations ==
    {[result |-> "ok"], [state |-> "complete", result |-> "ok"], [state |-> "failed"],
     [state |-> "pending"], [state |-> "running"],
     [modified |-> Earlier, created |-> Earlier]}

\* ------------------------------------------------------ the jobs collection
\* db.jobs.find_one({'_id': id}): the document of that id, or None.
find_one(db, id) == IF id \in DOMAIN db THEN db[id] ELSE NoDoc

\* The documents a filter on one field matches.
Matching(db, field, value) == {j \in DOMAIN db : db[j] # NoDoc /\ db[j][field] = value}

\* sort=[('modified', -1)]: the matching documents that sort first.
SortFirst(db, ids) == {j \in ids : \A k \in ids : db[k].modified <= db[j].modified}

\* db.jobs.find_one_and_update({'status': 'pending'},
\*     {'$set': {'status': 'running', 'modified': now}},
\*     sort=[('modified', -1)], return_document=ReturnDocument.AFTER)
\* as one indivisible operation of the collection.  The set of its possible
\* results: the updated document, or None when the filter matches nothing.
find_one_and_update(db, now) ==
    LET ids == Matching(db, "status", "pending") IN
    IF ids = {}
    THEN {[exc |-> "none", db |-> db, id |-> 0, doc |-> NoDoc]}
    ELSE {[exc |-> "none",
           db |-> [db EXCEPT ![j] = [@ EXCEPT !.status = "running", !.modified = now]],
           id |-> j,
           doc |-> [db[j] EXCEPT !.status = "running", !.modified = now]]
          : j \in SortFirst(db, ids)}

\* The update operators of the collection.
UpdateOperators == {"$set"}

\* A document with the fields of fields set.
Merge(doc, fields) ==
    [k \in DOMAIN doc |-> IF k \in DOMAIN fields THEN fields[k] ELSE doc[k]]

\* db.jobs.update_one(filter, update), the filter being a whole document read
\* before (its _id included): an update document with a key that is no update
\* operator is refused with ValueError before anything is sent; otherwise the
\* document of that id is updated if it still equals the filter.
update_one(db, id, filter, update) ==
    IF \E k \in DOMAIN update : k \notin UpdateOperators
    THEN [exc |-> "ValueError", db |-> db]
    ELSE IF find_one(db, id) = filter /\ filter # NoDoc
         THEN [exc |-> "none", db |-> [db EXCEPT ![id] = Merge(@, update["$set"])]]
         ELSE [exc |-> "none", db |-> db]

\* ---------------------------------------------------------------- handlers
\* A next() whose claim matches every job, whatever its state.
NextOutcomesAnyJob(db, now) ==
    LET ids == {j \in DOMAIN db : db[j] # NoDoc} IN
    IF ids = {}
    THEN {[exc |-> "none", db |-> db, id |-> 0, doc |-> NoDoc]}
    ELSE {[exc |-> "none",
           db |-> [db EXCEPT ![j] = [@ EXCEPT !.status = "running", !.modified = now]],
           id |-> j,
           doc |-> [db[j] EXCEPT !.status = "running", !.modified = now]]
          : j \in SortFirst(db, ids)}

\* A next() that claims a pending job and sets its created along with its
\* modified.
NextOutcomesResetsCreated(db, now) ==
    LET ids == Matching(db, "state", "pending") IN
    IF ids = {}
    THEN {[exc |-> "none", db |-> db, id |-> 0, doc |-> NoDoc]}
    ELSE {[exc |-> "none",
           db |-> [db EXCEPT ![j] = [@ EXCEPT !.state = "running", !.modified = now,
                                              !.created = now]],
           id |-> j,
           doc |-> [db[j] EXCEPT !.state = "running", !.modified = now, !.created = now]]
          : j \in SortFirst(db, ids)}

\* Jobs.next, lines 61-71.  The callee and the arguments are evaluated in
\* order (datetime.datetime.now() among them) and then ReturnDocument, a
\* name the module never imports: NameError, and the collection is not
\* called.  The set of the possible outcomes.
NextOutcomes(db, now) ==
    IF ~NameDefined("ReturnDocument", {"self"})
    THEN {[exc |-> "NameError", db |-> db, id |-> 0, doc |-> NoDoc]}
    ELSE find_one_and_update(db, now)

\* abort(404, ...) of line 92 and of line 95.
NotMutable == "404 Cannot mutate a job"
NotAllowed == "404 Mutating job not allowed"

\* A put() that keeps the gate on terminal jobs but writes the mutation it is
\* given without validating the state it asks for.
PutOutcomeUnvalidated(db, id, jobRead, mut, now) ==
    IF jobRead = NoDoc
    THEN [status |-> "TypeError", db |-> db, stamped |-> FALSE]
    ELSE IF jobRead.state \notin JOB_STATES_ALLOWED_MUTATE
    THEN [status |-> NotMutable, db |-> db, stamped |-> FALSE]
    ELSE [status |-> "returned",
          db |-> IF db[id] = jobRead
                 THEN [db EXCEPT ![id] = [Merge(@, mut) EXCEPT !.timestamp = now]]
                 ELSE db,
          stamped |-> TRUE]

\* A put() that validates the state asked for against the table and writes
\* the stamped mutation to the job if it is still as read.
PutOutcomeTable(db, id, jobRead, mut, now) ==
    IF jobRead = NoDoc
    THEN [status |-> "TypeError", db |-> db, stamped |-> FALSE]
    ELSE IF jobRead.state \notin JOB_STATES_ALLOWED_MUTATE
    THEN [status |-> NotMutable, db |-> db, stamped |-> FALSE]
    ELSE IF "state" \in DOMAIN mut
            /\ (jobRead.state \o " --> " \o mut.state) \notin JOB_TRANSITIONS
    THEN [status |-> NotAllowed, db |-> db, stamped |-> FALSE]
    ELSE [status |-> "returned",
          db |-> IF db[id] = jobRead
                 THEN [db EXCEPT ![id] =
                         [Merge(@, [k \in DOMAIN mut \ {"modified", "created"} |-> mut[k]])
                            EXCEPT !.modified = now]]
                 ELSE db,
          stamped |-> TRUE]

\* A put() that gates and validates, then sets every field of the mutation
\* as supplied and stamps only the key timestamp.
PutOutcomeSetsAll(db, id, jobRead, mut, now) ==
    IF jobRead = NoDoc
    THEN [status |-> "TypeError", db |-> db, stamped |-> FALSE]
    ELSE IF jobRead.state \notin JOB_STATES_ALLOWED_MUTATE
    THEN [status |-> NotMutable, db |-> db, stamped |-> FALSE]
    ELSE IF "state" \in DOMAIN mut
            /\ (jobRead.state \o " --> " \o mut.state) \notin JOB_TRANSITIONS
    THEN [status |-> NotAllowed, db |-> db, stamped |-> FALSE]
    ELSE [status |-> "returned",
          db |-> IF db[id] = jobRead
                 THEN [db EXCEPT ![id] = [Merge(@, mut) EXCEPT !.timestamp = now]]
                 ELSE db,
          stamped |-> TRUE]

\* Job.put after its read of line 87, lines 89-102, on the document read
\* (jobRead, NoDoc for None) and the request body:
\*   89  print 'MUTATION HAS ' + len(mutation) + ' FIELDS'
\*   91  if job['state'] not in JOB_STATES_ALLOWED_MUTATE: abort
\*   94  if 'state' in mutation and not validTransition(...): abort
\*   98  mutation['timestamp'] = now
\*  102  update_one(job, mutation)
\* stamped tells whether line 98 was reached.
PutOutcome(db, id, jobRead, mut, now) ==
    LET vt == validTransition(jobRead.state, mut.state)
        stampedMut == [k \in DOMAIN mut \cup {"timestamp"} |->
                         IF k = "timestamp" THEN now ELSE mut[k]]
        written == update_one(db, id, jobRead, stampedMut)
    IN  IF PyAddType(PyAddType("str", "int"), "str") = "TypeError"
        THEN [status |-> "TypeError", db |-> db, stamped |-> FALSE]
        ELSE IF jobRead = NoDoc
        THEN [status |-> "TypeError", db |-> db, stamped |-> FALSE]
        ELSE IF jobRead.state \notin JOB_STATES_ALLOWED_MUTATE
        THEN [status |-> NotMutable, db |-> db, stamped |-> FALSE]
        ELSE IF "state" \in DOMAIN mut /\ vt.exc # "none"
        THEN [status |-> vt.exc, db |-> db, stamped |-> FALSE]
        ELSE IF "state" \in DOMAIN mut /\ ~vt.val
        THEN [status |-> NotAllowed, db |-> db, stamped |-> FALSE]
        ELSE IF written.exc # "none"
        THEN [status |-> written.exc, db |-> db, stamped |-> TRUE]
        ELSE [status |-> "returned", db |-> written.db, stamped |-> TRUE]

\* ------------------------------------------------------------------- state
\* store    the jobs collection: the document of each id, NoDoc for none
\* clock    the last reading of datetime.datetime.now()
\* pc       where each request is: "idle" (not arrived), "read" (a put()
\*          past its find_one of line 87), "done"
\* op       the handler the request runs: "next", "put", "validTransition"
\* arg, mutation   the _id and the body of a put() request
\* job      put()'s local variable job
\* result   how the request ended, with the document or the value returned
\* snap     the collection as the request found it
\* after    the requests that had ended when this one arrived
\* vtargs   the arguments of a direct call of validTransition
VARIABLES store, clock, pc, op, arg, mutation, job, result, snap, after, vtargs

vars == <<store, clock, pc, op, arg, mutation, job, result, snap, after, vtargs>>

NoResult == [status |-> "none", id |-> 0, doc |-> NoDoc, val |-> FALSE]

\* The documents the handlers may find under an id: none, or the document of
\* a job in one of the JOB_STATES.
DocsOf(j) == {NoDoc} \cup {SubmittedDoc(j, s) : s \in JOB_STATES}

Stores ==
    {db \in [JobIds -> UNION {DocsOf(j) : j \in JobIds}] : \A j \in JobIds : db[j] \in DocsOf(j)}

Init ==
    /\ store \in Stores
    /\ clock = MaxJobs
    /\ pc = [c \in Calls |-> "idle"]
    /\ op = [c \in Calls |-> "none"]
    /\ arg = [c \in Calls |-> 0]
    /\ mutation = [c \in Calls |-> [result |-> "ok"]]
    /\ job = [c \in Calls |-> NoDoc]
    /\ result = [c \in Calls |-> NoResult]
    /\ snap = [c \in Calls |-> store]
    /\ after = [c \in Calls |-> {}]
    /\ vtargs = [c \in Calls |-> <<Absent, Absent>>]

\* Requests are numbered in their order of arrival.
Arrives(c) ==
    /\ pc[c] = "idle"
    /\ \A d \in Calls : d < c => pc[d] # "idle"

Ended == {d \in Calls : pc[d] = "done"}

\* A request for next(): lines 52-71, one step (its one access to the
\* collection is one operation of the collection).
NextCall(c) ==
    /\ Arrives(c)
    /\ \E d \in {0, 1} : \E o \in NextOutcomes(store, clock + d) :
          /\ clock' = clock + d
          /\ store' = o.db
          /\ result' = [result EXCEPT ![c] =
                 [status |-> IF o.exc = "none" THEN "returned" ELSE o.exc,
                  id |-> o.id, doc |-> o.doc, val |-> FALSE]]
    /\ pc' = [pc EXCEPT ![c] = "done"]
    /\ op' = [op EXCEPT ![c] = "next"]
    /\ snap' = [snap EXCEPT ![c] = store]
    /\ after' = [after EXCEPT ![c] = Ended]
    /\ UNCHANGED <<arg, mutation, job, vtargs>>

\* A request for put(_id): lines 86-87, the body and the read of the job.
PutRead(c) ==
    /\ Arrives(c)
    /\ \E id \in JobIds, m \in Mutations :
          /\ arg' = [arg EXCEPT ![c] = id]
          /\ mutation' = [mutation EXCEPT ![c] = m]
          /\ job' = [job EXCEPT ![c] = find_one(store, id)]
    /\ pc' = [pc EXCEPT ![c] = "read"]
    /\ op' = [op EXCEPT ![c] = "put"]
    /\ snap' = [snap EXCEPT ![c] = store]
    /\ after' = [after EXCEPT ![c] = Ended]
    /\ UNCHANGED <<store, clock, result, vtargs>>

\* The rest of that put(): lines 89-102.
PutWrite(c) ==
    /\ pc[c] = "read"
    /\ \E d \in {0, 1} :
          LET o == PutOutcome(store, arg[c], job[c], mutation[c], clock + d) IN
          /\ clock' = IF o.stamped THEN clock + d ELSE clock
          /\ store' = o.db
          /\ result' = [result EXCEPT ![c] = [status |-> o.status, id |-> arg[c], doc |-> NoDoc, val |-> FALSE]]
    /\ pc' = [pc EXCEPT ![c] = "done"]
    /\ UNCHANGED <<op, arg, mutation, job, snap, after, vtargs>>

Next == \E c \in Calls : NextCall(c) \/ PutRead(c) \/ PutWrite(c)

Spec == Init /\ [][Next]_vars

\* The engines poll next() whenever they have free slots (docstring of
\* next()): a request that can be served is served.
SpecLive == Init /\ [][Next]_vars /\ WF_vars(Next)

\* ------------------------------------------- validTransition called directly
\* A caller evaluates validTransition(fromState, toState) on a pair of job
\* states, lines 35-36.
VTCall(c) ==
    /\ Arrives(c)
    /\ \E f \in JOB_STATES, t \in JOB_STATES :
          LET r == validTransition(f, t) IN
          /\ vtargs' = [vtargs EXCEPT ![c] = <<f, t>>]
          /\ result' = [result EXCEPT ![c] =
                 [status |-> IF r.exc = "none" THEN "returned" ELSE r.exc,
                  id |-> 0, doc |-> NoDoc, val |-> r.val]]
    /\ pc' = [pc EXCEPT ![c] = "done"]
    /\ op' = [op EXCEPT ![c] = "validTransition"]
    /\ after' = [after EXCEPT ![c] = Ended]
    /\ UNCHANGED <<store, clock, arg, mutation, job, snap>>

NextVT == \E c \in Calls : VTCall(c)

SpecVT == Init /\ [][NextVT]_vars

\* ================================================================== claims
Terminal == JOB_STATES \ JOB_STATES_ALLOWED_MUTATE

\* The jobs of a collection that are pending, by the state field every job
\* document carries.
PendingIn(db) == {j \in DOMAIN db : db[j] # NoDoc /\ db[j].state = "pending"}

NextEnded(c) == pc[c] = "done" /\ op[c] = "next"
PutEnded(c) == pc[c] = "done" /\ op[c] = "put"

\* next() returned a job / returned "no work available".
ReturnedJob(c) == result[c].status = "returned" /\ result[c].id # 0
ReturnedNoWork(c) == result[c].status = "returned" /\ result[c].id = 0

\* put() was accepted.
Accepted(c) == result[c].status = "returned"

\* Call d arrived after call c had ended.
Follows(d, c) == c \in after[d]

\* C1: when every request is a next() and the collection they found held
\* exactly one pending job, once all have ended exactly one of them has
\* returned that job and each other has returned "no work available"; and no
\* job is ever returned by two next() calls.
C1_ExclusiveClaim ==
    /\ \A c, d \in Calls :
          (c # d /\ NextEnded(c) /\ NextEnded(d) /\ ReturnedJob(c) /\ ReturnedJob(d))
             => result[c].id # result[d].id
    /\ ((\A c \in Calls : NextEnded(c)) /\ Cardinality(PendingIn(snap[1])) = 1)
          => \E w \in Calls :
                /\ ReturnedJob(w) /\ result[w].id \in PendingIn(snap[1])
                /\ \A c \in Calls \ {w} : ReturnedNoWork(c)

\* C2: a next() that found a pending job has returned one: the record
\* returned is a job that was pending, its state is running and its modified
\* is greater than before the claim.
C2_ReturnsRunningRecord ==
    \A c \in Calls :
        (NextEnded(c) /\ PendingIn(snap[c]) # {})
           => /\ ReturnedJob(c)
              /\ result[c].id \in PendingIn(snap[c])
              /\ result[c].doc.state = "running"
              /\ result[c].doc.modified > snap[c][result[c].id].modified

\* C3: claim, then report.  A next() that found job j pending (and no other
\* request under way) returns j running; an update(j, {state: complete,
\* result: ok}) that follows it is accepted and leaves j complete; an
\* update(j, {state: failed}) that follows both is rejected as not mutable
\* and j stays complete.
C3_ClaimThenReport ==
    \A a \in Calls, j \in JobIds :
        (NextEnded(a) /\ after[a] = {} /\ PendingIn(snap[a]) = {j})
           => /\ ReturnedJob(a) /\ result[a].id = j /\ result[a].doc.state = "running"
              /\ \A b \in Calls :
                    (PutEnded(b) /\ after[b] = {a} /\ arg[b] = j
                       /\ mutation[b] = [state |-> "complete", result |-> "ok"])
                       => /\ job[b].state = "running"
                          /\ Accepted(b)
                          /\ store[j].state = "complete"
                          /\ \A d \in Calls :
                                (PutEnded(d) /\ after[d] = {a, b} /\ arg[d] = j
                                   /\ mutation[d] = [state |-> "failed"])
                                   => /\ result[d].status = NotMutable
                                      /\ store[j].state = "complete"

\* The rejection of a write that lost a race, which no line of put() raises.
ConflictingUpdate == "conflicting update"

\* C4: of two update() calls on the same running job, one to failed and one
\* to complete, with no other request on that job, exactly one is accepted,
\* the other ends in an explicit rejection, and the job is left in the state
\* the accepted one asked for.
C4_OneWinner ==
    \A a, b \in Calls, j \in JobIds :
        (/\ a # b /\ PutEnded(a) /\ PutEnded(b) /\ arg[a] = j /\ arg[b] = j
         /\ a \notin after[b]
         /\ snap[a][j].state = "running" /\ snap[b][j].state = "running"
         /\ mutation[a] = [state |-> "failed"]
         /\ mutation[b] = [state |-> "complete", result |-> "ok"]
         /\ \A d \in Calls \ {a, b} : pc[d] = "idle")
           => \E w \in {a, b} : \E l \in {a, b} \ {w} :
                 /\ Accepted(w)
                 /\ ~Accepted(l) /\ result[l].status \in {ConflictingUpdate, NotMutable}
                 /\ store[j].state = mutation[w].state

\* C6: every step that changes the stored state of a job changes it along
\* pending -> running, running -> failed or running -> complete.
C6_ForwardOnly ==
    [][\A j \in JobIds :
          store'[j].state # store[j].state
             => <<store[j].state, store'[j].state>> \in
                   {<<"pending", "running">>, <<"running", "failed">>,
                    <<"running", "complete">>}]_vars

\* A next() and an update asking pending -> complete have both run against
\* a pending job.
C6_Witness ==
    \E a, b \in Calls, j \in JobIds :
        /\ NextEnded(a) /\ PutEnded(b) /\ arg[b] = j
        /\ job[b].state = "pending"
        /\ "state" \in DOMAIN mutation[b] /\ mutation[b].state = "complete"
        /\ snap[a][j].state = "pending"

\* C7: no step changes any field of a job whose stored state is failed or
\* complete.
C7_TerminalImmutable ==
    [][\A j \in JobIds : store[j].state \in Terminal => store'[j] = store[j]]_vars

\* A next() and an update() have both run against a terminal job.
C7_Witness ==
    \E a, b \in Calls, j \in JobIds :
        /\ NextEnded(a) /\ PutEnded(b) /\ arg[b] = j
        /\ job[b].state \in Terminal /\ snap[a][j].state \in Terminal
        /\ store[j].state \in Terminal

\* C8: validTransition returns TRUE for exactly (pending, running),
\* (running, failed) and (running, complete), and returns FALSE, raising
\* nothing, for every other pair of states.
C8_TransitionTable ==
    \A c \in Calls :
        (pc[c] = "done" /\ op[c] = "validTransition")
           => /\ result[c].status = "returned"
              /\ result[c].val <=>
                    vtargs[c] \in {<<"pending", "running">>, <<"running", "failed">>,
                                   <<"running", "complete">>}

\* C9: an update() of a job whose stored state is failed or complete ends
\* with the not-mutable rejection, whatever its mutation, and the record is
\* as it was.
C9_TerminalRejected ==
    \A c \in Calls :
        (PutEnded(c) /\ job[c].state \in Terminal)
           => /\ result[c].status = NotMutable
              /\ store[arg[c]] = job[c]

\* C10: an update() of a pending or running job whose mutation asks for a
\* state that is no table transition from the stored state ends with the
\* transition-not-allowed rejection, which is not the not-mutable one, and
\* the record is as it was.
C10_InvalidTransitionRejected ==
    \A c \in Calls :
        (/\ PutEnded(c) /\ job[c].state \in JOB_STATES_ALLOWED_MUTATE
         /\ "state" \in DOMAIN mutation[c]
         /\ <<job[c].state, mutation[c].state>> \notin
               {<<"pending", "running">>, <<"running", "failed">>,
                <<"running", "complete">>})
           => /\ result[c].status = NotAllowed
              /\ NotAllowed # NotMutable
              /\ store[arg[c]] = job[c]

C12_NoWorkIsNormal ==
    [][\A c \in Calls :
          (pc[c] = "idle" /\ pc'[c] = "done" /\ op'[c] = "next" /\ PendingIn(store) = {})
             => /\ result'[c].status = "returned" /\ result'[c].id = 0
                /\ store' = store]_vars

TablePairs ==
    {<<"pending", "running">>, <<"running", "failed">>, <<"running", "complete">>}

\* The step in which put() request c, past its read, runs to its end.
PutStep(c) == pc[c] = "read" /\ pc'[c] = "done"

\* The update of request c is one the gateway accepts: the job it read is
\* pending or running and is still as read, and the state it asks for, if
\* any, is a table transition from the job's state.
Acceptable(c) ==
    /\ job[c] # NoDoc /\ job[c].state \in JOB_STATES_ALLOWED_MUTATE
    /\ store[arg[c]] = job[c]
    /\ "state" \in DOMAIN mutation[c] => <<job[c].state, mutation[c].state>> \in TablePairs

\* C13: an update the gateway accepts, with or without a state in it, ends
\* accepted with the job's modified set to the time of the write, every
\* field supplied merged into the record and every other field kept.
C13_AcceptedWriteStampsAndMerges ==
    [][\A c \in Calls :
          (PutStep(c) /\ Acceptable(c))
             => /\ result'[c].status = "returned"
                /\ store'[arg[c]].modified = clock'
                /\ \A k \in DOMAIN NoDoc \ {"modified", "created"} :
                      store'[arg[c]][k] =
                         IF k \in DOMAIN mutation[c] THEN mutation[c][k]
                         ELSE store[arg[c]][k]]_vars

C15_ModifiedMonotone ==
    [][\A j \in JobIds :
          store[j] # NoDoc => store'[j].modified >= store[j].modified]_vars

\* A next() has run, and an update supplying a modified lower than the job's
\* has run to its end on a pending or running job.
C15_Witness ==
    \E a, b \in Calls :
        /\ NextEnded(a) /\ PutEnded(b)
        /\ job[b].state \in JOB_STATES_ALLOWED_MUTATE
        /\ "modified" \in DOMAIN mutation[b]
        /\ mutation[b].modified < job[b].modified
        /\ store[arg[b]].modified = job[b].modified

\* The rejection of an update whose id has no record, which no line of put()
\* raises.
NotFound == "not found"

\* C16: an update() that read no record under its id ends with the not-found
\* rejection, which is neither the not-mutable nor the not-allowed one, and
\* the collection holds no record under that id afterwards.
C16_AbsentIdRejected ==
    \A c \in Calls :
        (PutEnded(c) /\ job[c] = NoDoc)
           => /\ result[c].status = NotFound
              /\ NotFound \notin {NotMutable, NotAllowed}
              /\ store[arg[c]] = NoDoc

\* C17: no step removes a record or changes the created of one (records are
\* kept under their id).
C17_IdAndCreatedKept ==
    [][\A j \in JobIds :
          store[j] # NoDoc
             => store'[j] # NoDoc /\ store'[j].created = store[j].created]_vars

\* A next() has run against a pending job, and an update supplying created
\* has run to its end on a pending or running job.
C17_Witness ==
    \E a, b \in Calls :
        /\ NextEnded(a) /\ PendingIn(snap[a]) # {}
        /\ PutEnded(b) /\ job[b].state \in JOB_STATES_ALLOWED_MUTATE
        /\ "created" \in DOMAIN mutation[b]
        /\ mutation[b].created # job[b].created
        /\ store[arg[b]].created = job[b].created

\* C18: an update without a state in its mutation, on a job that is pending
\* or running, with no other request arrived, ends accepted and leaves the
\* job's state as it was.
C18_NoStateMutationAccepted ==
    \A c \in Calls :
        (/\ PutEnded(c) /\ job[c].state \in JOB_STATES_ALLOWED_MUTATE
         /\ "state" \notin DOMAIN mutation[c]
         /\ \A d \in Calls \ {c} : pc[d] = "idle")
           => /\ Accepted(c)
              /\ store[arg[c]].state = job[c].state

\* The step in which next() request c runs.
NextStep(c) == pc[c] = "idle" /\ pc'[c] = "done" /\ op'[c] = "next"

\* C19: a next() that found a job pending changes exactly one record, one
\* that was pending: its state becomes running and its modified changes,
\* its other fields and every other record stay as they were, and it is the
\* record returned.
C19_NextFrame ==
    [][\A c \in Calls :
          (NextStep(c) /\ PendingIn(store) # {})
             => \E j \in PendingIn(store) :
                   /\ store'[j] # store[j]
                   /\ store' = [store EXCEPT ![j] =
                         [@ EXCEPT !.state = "running", !.modified = store'[j].modified]]
                   /\ result'[c].id = j]_vars

\* C20: once every request has been a next() and has ended, and the jobs
\* pending at the start were no more than the requests, no job is pending,
\* each job pending at the start has been returned by exactly one request
\* and every other request has returned "no work available".
C20_QueueDrains ==
    LET K == PendingIn(snap[1]) IN
    ((\A c \in Calls : NextEnded(c)) /\ Cardinality(K) <= Cardinality(Calls))
       => /\ PendingIn(store) = {}
          /\ \A j \in K : Cardinality({c \in Calls : ReturnedJob(c) /\ result[c].id = j}) = 1
          /\ Cardinality({c \in Calls : ReturnedJob(c)}) = Cardinality(K)
          /\ \A c \in Calls : ReturnedJob(c) \/ ReturnedNoWork(c)

====
